---- MODULE Spec2Model ----
(***************************************************************************)
(* Model of GarminClient (src/src/garmin_client.py): the session flags,    *)
(* authenticate(), submit_mfa_code() and get_metrics() with its six        *)
(* concurrent fetches joined by asyncio.gather and the merge that follows. *)
(*                                                                         *)
(* Python values are tagged tuples: <<"None">>, <<"int", n>>,              *)
(* <<"float", n, d>>, <<"str", chars>>, <<"dict", record>>,                *)
(* <<"list", seq>>, and <<"missing">> for a key a dict does not hold.      *)
(* Exception texts are sequences of text fragments; `needle in text` is    *)
(* Contains.                                                               *)
(***************************************************************************)
EXTENDS Integers, Sequences, FiniteSets, TLC

VARIABLES
    authenticated,      \* self._authenticated
    auth_failed,        \* self._auth_failed
    mfa_ticket_dict,    \* self.mfa_ticket_dict
    pending_token,      \* self.client.garth.oauth2_token as the login of that call left it
    display_name,       \* self.client.display_name
    pc,                 \* position of the get_metrics coroutine: "idle" or "gather"
    target_date,        \* get_metrics' argument
    fetch,              \* the six awaitables handed to asyncio.gather
    op,                 \* the call that ran last
    raised,             \* the exception that call raised, if any
    results,            \* the values the awaitables returned
    metrics,            \* the GarminMetrics get_metrics returned, if any
    login_result,       \* what self.client.login() did in that call, if invoked
    loads_invoked,      \* that call invoked self.client.garth.loads()
    resume_arg,         \* the ticket that call passed to resume_login, if any
    resume_result,      \* what resume_login did in that call, if invoked
    profile_result,     \* what reading self.client.garth.profile did in that call, if read
    mfa_failed,         \* some submit_mfa_code call has failed
    overwritten_ticket, \* the ticket the assignment of line 60 or 72 overwrote in that call
    sync_pc,            \* position of the sync coroutine of main.py
    start_date,         \* sync's arguments
    end_date,
    output_type,
    current_date,       \* sync's loop variable
    metrics_to_write,   \* the records sync has collected
    calls,              \* the dates sync has called get_metrics with
    sink                \* the records sync has handed to the sheet or the CSV file

clientVars == <<authenticated, auth_failed, mfa_ticket_dict, pending_token, display_name,
                pc, target_date, fetch, results, op, raised, metrics,
                login_result, loads_invoked, resume_arg, resume_result, profile_result,
                mfa_failed, overwritten_ticket>>

syncVars == <<sync_pc, start_date, end_date, output_type, current_date,
              metrics_to_write, calls, sink>>

vars == <<clientVars, syncVars>>

sessionVars == <<authenticated, auth_failed, mfa_ticket_dict>>

----------------------------------------------------------------------------
(* Bounds *)

MaxDate == 2

Dates == 1..MaxDate

----------------------------------------------------------------------------
(* Python values *)

PyNone == <<"None">>
Missing == <<"missing">>
PyInt(n) == <<"int", n>>
\* the float n / d
Num(n, d) == <<"float", n, d>>
\* a str, as the sequence of its characters
Str(cs) == <<"str", cs>>
\* a dict, as a record whose absent keys hold Missing
Dict(r) == <<"dict", r>>
List(q) == <<"list", q>>

IsNone(v) == v[1] = "None"

\* bool(v)
Truth(v) ==
    CASE v[1] = "None" -> FALSE
      [] v[1] = "int" -> v[2] # 0
      [] v[1] = "float" -> v[2] # 0
      [] v[1] = "str" -> Len(v[2]) > 0
      [] v[1] = "dict" -> \E k \in DOMAIN v[2] : v[2][k] # Missing
      [] v[1] = "list" -> Len(v[2]) > 0

\* v has a .get method
HasGet(v) == v[1] = "dict"
\* d.get(k)
Get(d, k) == IF k \notin DOMAIN d[2] \/ d[2][k] = Missing THEN PyNone ELSE d[2][k]
\* d.get(k, default)
GetD(d, k, default) == IF k \notin DOMAIN d[2] \/ d[2][k] = Missing THEN default ELSE d[2][k]
\* {}
EmptyDict == Dict(<<>>)

\* needle in text, on sequences
Contains(needle, text) ==
    \E i \in 0..(Len(text) - Len(needle)) :
        \A j \in 1..Len(needle) : text[i + j] = needle[j]

----------------------------------------------------------------------------
(* The states of self.client.garth.oauth2_token: no token, a token object, *)
(* or the dict garth leaves behind when the login needs an MFA code.       *)
(* The model keeps the state the login call of the last operation left, as *)
(* pending_token: authenticate() reads it only right after that call.      *)

DictTokens == {"dict_empty", "dict_noclient", "dict_t1"}
TokenStates == {"none", "object"} \cup DictTokens
\* what a failing login leaves in oauth2_token
PendingStates == {"none"} \cup DictTokens

IsDict(t) == t \in DictTokens
\* a truth test that every ticket passes
TruthyAlways(t) == TRUE

\* bool(t): None and {} are falsy
Truthy(t) == t \notin {"none", "dict_empty"}
\* a client check that no ticket passes
HasClientNever(t) == FALSE

\* 'client' in t and isinstance(t.get('client'), garth.Client)
HasClient(t) == t = "dict_t1"

DisplayNames == {"None", "user"}

----------------------------------------------------------------------------
(* Exceptions *)

NoExc == [type |-> "none", msg |-> <<>>, mfa_data |-> "none"]
Exc(t, m) == [type |-> t, msg |-> m, mfa_data |-> "none"]
MFARequiredException(d) ==
    [type |-> "MFARequiredException", msg |-> <<"MFA code is required.">>, mfa_data |-> d]

NotCalled == Exc("not_called", <<>>)

ExpiredText == <<"'dict' object has no attribute 'expired'">>

\* what self.client.login() does: return, or raise one of these
LoginOutcomes ==
    { NoExc,
      Exc("AttributeError", ExpiredText),
      Exc("AttributeError", <<"'NoneType' object has no attribute 'get'">>),
      Exc("GarminConnectAuthenticationError", <<"MFA-required">>),
      Exc("GarminConnectAuthenticationError", <<"Login failed: ", "Authentication failed">>),
      Exc("GarminConnectAuthenticationError", <<"Invalid credentials">>),
      Exc("GarminConnectTooManyRequestsError", <<"Too many requests">>) }

\* what garth.loads() and the profile read after it do
LoadsOutcomes == {"ok", "loads_raises", "profile_raises"}


\* what resume_login(ticket, code) does: return a pair of tokens, return
\* something else, or raise
ResumeOutcomes ==
    { Exc("tuple", <<>>),
      Exc("not_tuple", <<>>),
      Exc("GarthHTTPError", <<"Error in request: ", "429", " Client Error: Too Many Requests">>),
      Exc("GarthHTTPError", <<"Error in request: ", "401", " Client Error: Unauthorized">>) }

\* what reading self.client.garth.profile after resume_login does
ProfileOutcomes == {"data", "empty", "raises"}

\* the call did not read the profile
NotRead == <<"not_read">>

----------------------------------------------------------------------------
(* The six sources get_metrics fetches.  fetch and results describe the    *)
(* last get_metrics call; another call forgets them.                       *)

Sources == {"stats", "sleep", "activities", "summary", "training_status", "hrv"}

NoTasks == [s \in Sources |-> "none"]
NoResults == [s \in Sources |-> Missing]

----------------------------------------------------------------------------
(* authenticate(): the login wrapper (token load, else password login) and *)
(* the except clauses.  An input i is what the environment does during the *)
(* call: i.secret whether os.getenv("GARMIN_TOKENS") holds a token,        *)
(* i.loads the outcome of garth.loads and of the profile read, i.prof the  *)
(* displayName the profile holds, i.login the outcome of client.login(),   *)
(* and i.pending the oauth2_token a failing login leaves on the garth      *)
(* client.                                                                 *)

AuthInputs ==
    { i \in [secret : {"unset", "set"}, loads : LoadsOutcomes, prof : DisplayNames,
             login : LoginOutcomes, pending : PendingStates] :
        LET tokenPath == i.secret = "set" /\ i.loads = "ok" IN
        \* what the call does not read is held at one value
        /\ i.secret = "unset" => i.loads = "loads_raises"
        /\ tokenPath => i.login = NoExc
        /\ i.login = NoExc => i.pending = "none"
        /\ i.login # NoExc => i.prof = "None" }

IsChallengeText(e) ==
    \/ e.type = "AttributeError" /\ Contains(ExpiredText, e.msg)
    \/ /\ e.type = "GarminConnectAuthenticationError"
       /\ \/ Contains(<<"MFA-required">>, e.msg)
          \/ Contains(<<"Authentication failed">>, e.msg)

\* an authenticate() that returns normally whatever the login did, without
\* touching the session
authenticateSwallowsError(i) ==
    [authenticated |-> authenticated,
     mfa_ticket_dict |-> mfa_ticket_dict,
     oauth2_token |-> "none",
     display_name |-> display_name,
     raised |-> NoExc,
     login_result |-> i.login,
     loads_invoked |-> i.secret = "set",
     profile_result |-> NotRead,
     overwritten |-> "none"]

\* an authenticate() that goes to the password login whatever the token load did
authenticateLoginOnly(i) ==
    [authenticated |-> TRUE,
     mfa_ticket_dict |-> "none",
     oauth2_token |-> "object",
     display_name |-> i.prof,
     raised |-> NoExc,
     login_result |-> NoExc,
     loads_invoked |-> i.secret = "set",
     profile_result |-> IF i.secret = "set" /\ i.loads = "ok"
                        THEN <<"data", i.prof>> ELSE NotRead,
     overwritten |-> "none"]

\* an authenticate() that fails when the persisted tokens cannot be loaded
authenticateTokenFailureFatal(i) ==
    IF i.secret = "set" /\ i.loads # "ok"
    THEN [authenticated |-> authenticated,
          mfa_ticket_dict |-> mfa_ticket_dict,
          oauth2_token |-> "none",
          display_name |-> display_name,
          raised |-> Exc("GarminConnectAuthenticationError", <<"Failed to load tokens">>),
          login_result |-> NotCalled,
          loads_invoked |-> TRUE,
          profile_result |-> IF i.loads = "profile_raises" THEN <<"raises">> ELSE NotRead,
          overwritten |-> "none"]
    ELSE [authenticated |-> TRUE,
          mfa_ticket_dict |-> "none",
          oauth2_token |-> "object",
          display_name |-> i.prof,
          raised |-> NoExc,
          login_result |-> IF i.secret = "set" THEN NotCalled ELSE NoExc,
          loads_invoked |-> i.secret = "set",
          profile_result |-> IF i.secret = "set" THEN <<"data", i.prof>> ELSE NotRead,
          overwritten |-> "none"]

\* an authenticate() that reports every failed login as a challenge and
\* keeps the ticket the session holds, if it holds one
authenticateKeepsTicket(i) ==
    IF i.login = NoExc
    THEN [authenticated |-> TRUE,
          mfa_ticket_dict |-> "none",
          oauth2_token |-> "object",
          display_name |-> i.prof,
          raised |-> NoExc,
          login_result |-> NoExc,
          loads_invoked |-> i.secret = "set",
          profile_result |-> NotRead,
          overwritten |-> "none"]
    ELSE [authenticated |-> authenticated,
          mfa_ticket_dict |-> IF mfa_ticket_dict = "none" THEN i.pending ELSE mfa_ticket_dict,
          oauth2_token |-> i.pending,
          display_name |-> display_name,
          raised |-> MFARequiredException(i.pending),
          login_result |-> i.login,
          loads_invoked |-> i.secret = "set",
          profile_result |-> NotRead,
          overwritten |-> "none"]

authenticate(i) ==
    LET loads == i.loads
        prof == i.prof
        login == i.login
        pending == i.pending
        tokenPath == i.secret = "set" /\ loads = "ok"
        base == [authenticated |-> authenticated,
                 mfa_ticket_dict |-> mfa_ticket_dict,
                 oauth2_token |-> "none",
                 display_name |-> display_name,
                 raised |-> NoExc,
                 login_result |-> IF tokenPath THEN NotCalled ELSE login,
                 loads_invoked |-> i.secret = "set",
                 profile_result |-> IF i.secret = "unset" \/ loads = "loads_raises"
                                    THEN NotRead
                                    ELSE IF loads = "profile_raises" THEN <<"raises">>
                                    ELSE <<"data", prof>>,
                 overwritten |-> "none"]
    IN  IF tokenPath \/ login = NoExc
        THEN [base EXCEPT !.authenticated = TRUE,
                          !.mfa_ticket_dict = "none",
                          !.oauth2_token = "object",
                          !.display_name = prof]
        ELSE IF login.type \in {"AttributeError", "GarminConnectAuthenticationError"}
        THEN IF IsChallengeText(login) /\ IsDict(pending)
             THEN [base EXCEPT !.mfa_ticket_dict = pending,
                               !.overwritten = mfa_ticket_dict,
                               !.oauth2_token = pending,
                               !.raised = MFARequiredException(pending)]
             ELSE [base EXCEPT !.oauth2_token = pending,
                               !.raised = login]
        ELSE [base EXCEPT !.oauth2_token = pending,
                          !.raised = Exc("GarminConnectAuthenticationError",
                                         <<"An unexpected error occurred during authentication: ">>
                                            \o login.msg)]

Authenticate ==
    /\ pc = "idle"
    /\ \E i \in AuthInputs :
         LET r == authenticate(i) IN
         /\ authenticated' = r.authenticated
         /\ mfa_ticket_dict' = r.mfa_ticket_dict
         /\ pending_token' = r.oauth2_token
         /\ display_name' = r.display_name
         /\ raised' = r.raised
         /\ login_result' = r.login_result
         /\ loads_invoked' = r.loads_invoked
         /\ profile_result' = r.profile_result
         /\ overwritten_ticket' = r.overwritten
    /\ op' = "authenticate"
    /\ resume_arg' = "none"
    /\ resume_result' = NotCalled
    /\ metrics' = PyNone
    /\ fetch' = NoTasks
    /\ results' = NoResults
    /\ UNCHANGED <<auth_failed, pc, target_date, mfa_failed>>

----------------------------------------------------------------------------
(* submit_mfa_code(mfa_code) *)

\* str(e) of the exception the try block of submit_mfa_code ends with
SubmitErrorMsg(res) ==
    IF res.type = "tuple"
    THEN <<"Critical error: Could not retrieve garth.Client instance.">>
    ELSE IF res.type = "not_tuple"
    THEN <<"MFA token processing failed: Unexpected result from resume_login.">>
    ELSE res.msg

\* an except clause that never reports the rate limit
SubmitRaiseOrdinary(error_msg) == Exc("Exception", <<"MFA failed: ">> \o error_msg)

\* lines 360-366
SubmitRaise(error_msg) ==
    IF Contains(<<"429">>, error_msg)
    THEN Exc("Exception", <<"Garmin is rate limiting your requests. Wait 5-10 mins.">>)
    ELSE Exc("Exception", <<"MFA failed: ">> \o error_msg)

\* line 317
NoTicket == Exc("Exception", <<"MFA ticket not available. Please authenticate first.">>)

\* what the environment does during the call: i.res the outcome of
\* resume_login, i.prof that of the profile read, i.name the displayName read
SubmitInputs ==
    { i \in [res : ResumeOutcomes, prof : ProfileOutcomes, name : DisplayNames] :
        /\ i.res.type # "tuple" => i.prof = "raises"
        /\ i.prof # "data" => i.name = "None" }

SubmitMfaCode ==
    /\ pc = "idle"
    /\ op' = "submit_mfa_code"
    /\ overwritten_ticket' = "none"
    /\ pending_token' = "none"
    /\ login_result' = NotCalled
    /\ loads_invoked' = FALSE
    /\ metrics' = PyNone
    /\ IF ~Truthy(mfa_ticket_dict)
       THEN /\ raised' = NoTicket
            /\ resume_arg' = "none"
            /\ resume_result' = NotCalled
            /\ profile_result' = NotRead
            /\ UNCHANGED <<authenticated, auth_failed, mfa_ticket_dict,
                           display_name, mfa_failed>>
       ELSE /\ resume_arg' = mfa_ticket_dict
            /\ \E i \in SubmitInputs :
                 /\ resume_result' = i.res
                 /\ IF i.res.type = "tuple" /\ HasClient(mfa_ticket_dict)
                    THEN /\ display_name' = IF i.prof = "data" THEN i.name ELSE display_name
                         /\ profile_result' = IF i.prof = "data" THEN <<"data", i.name>>
                                               ELSE <<i.prof>>
                         /\ authenticated' = TRUE
                         /\ mfa_ticket_dict' = "none"
                         /\ raised' = NoExc
                         /\ UNCHANGED <<auth_failed, mfa_failed>>
                    ELSE /\ authenticated' = FALSE
                         /\ auth_failed' = TRUE
                         /\ mfa_failed' = TRUE
                         /\ profile_result' = NotRead
                         /\ raised' = SubmitRaise(SubmitErrorMsg(i.res))
                         /\ UNCHANGED <<mfa_ticket_dict, display_name>>
    /\ fetch' = NoTasks
    /\ results' = NoResults
    /\ UNCHANGED <<pc, target_date>>

----------------------------------------------------------------------------
(* get_metrics: the merge of the six payloads (lines 139-304).  Each step  *)
(* yields ok = FALSE where the code raises.                                *)

Raises == [ok |-> FALSE]

\* lines 139-150
ProcessHrv(hrv_payload) ==
    IF ~Truth(hrv_payload)
    THEN [ok |-> TRUE, overnight_hrv_value |-> PyNone, hrv_status_value |-> PyNone]
    ELSE IF ~HasGet(hrv_payload) THEN Raises
    ELSE LET hrv_summary == Get(hrv_payload, "hrvSummary") IN
         IF ~Truth(hrv_summary)
         THEN [ok |-> TRUE, overnight_hrv_value |-> PyNone, hrv_status_value |-> PyNone]
         ELSE IF ~HasGet(hrv_summary) THEN Raises
         ELSE [ok |-> TRUE,
               overnight_hrv_value |-> Get(hrv_summary, "lastNightAvg"),
               hrv_status_value |-> Get(hrv_summary, "status")]

UpperCase == <<"A", "B", "C", "D", "E", "F", "G", "H", "I", "J", "K", "L", "M",
               "N", "O", "P", "Q", "R", "S", "T", "U", "V", "W", "X", "Y", "Z">>
LowerCase == <<"a", "b", "c", "d", "e", "f", "g", "h", "i", "j", "k", "l", "m",
               "n", "o", "p", "q", "r", "s", "t", "u", "v", "w", "x", "y", "z">>

\* str.lower()
Lower(cs) ==
    [i \in 1..Len(cs) |->
        IF \E j \in 1..26 : UpperCase[j] = cs[i]
        THEN LowerCase[CHOOSE j \in 1..26 : UpperCase[j] = cs[i]]
        ELSE cs[i]]

\* the chain with the strength test moved to the front
CategoryStrengthFirst(type_key, parent_type_id) ==
    IF Contains(<<"s", "t", "r", "e", "n", "g", "t", "h">>, type_key) THEN "strength"
    ELSE IF Contains(<<"r", "u", "n">>, type_key) \/ parent_type_id = PyInt(1) THEN "running"
    ELSE IF \/ Contains(<<"v", "i", "r", "t", "u", "a", "l", "_", "r", "i", "d", "e">>, type_key)
            \/ Contains(<<"c", "y", "c", "l", "i", "n", "g">>, type_key)
            \/ parent_type_id = PyInt(2)
    THEN "cycling"
    ELSE IF Contains(<<"c", "a", "r", "d", "i", "o">>, type_key) THEN "cardio"
    ELSE IF Contains(<<"t", "e", "n", "n", "i", "s">>, type_key) THEN "tennis"
    ELSE "unclassified"

\* the if/elif chain of lines 170-184 on the lowered type key and the parent type id
Category(type_key, parent_type_id) ==
    IF Contains(<<"r", "u", "n">>, type_key) \/ parent_type_id = PyInt(1)
    THEN "running"
    ELSE IF \/ Contains(<<"v", "i", "r", "t", "u", "a", "l", "_", "r", "i", "d", "e">>, type_key)
            \/ Contains(<<"c", "y", "c", "l", "i", "n", "g">>, type_key)
            \/ parent_type_id = PyInt(2)
    THEN "cycling"
    ELSE IF Contains(<<"s", "t", "r", "e", "n", "g", "t", "h">>, type_key) THEN "strength"
    ELSE IF Contains(<<"c", "a", "r", "d", "i", "o">>, type_key) THEN "cardio"
    ELSE IF Contains(<<"t", "e", "n", "n", "i", "s">>, type_key) THEN "tennis"
    ELSE "unclassified"

Categories == {"running", "cycling", "strength", "cardio", "tennis"}

\* the key whose value a category accumulates
Measure(cat) == IF cat \in {"running", "cycling"} THEN "distance" ELSE "duration"

\* one iteration of the loop of lines 165-184: the category and the amount
\* added to its total, or a raise
ProcessActivity(activity) ==
    IF ~HasGet(activity) THEN Raises
    ELSE LET activity_type == GetD(activity, "activityType", Dict([typeKey |-> Missing, parentTypeId |-> Missing])) IN
         IF ~HasGet(activity_type) THEN Raises
         ELSE LET raw_key == GetD(activity_type, "typeKey", Str(<<>>)) IN
              IF raw_key[1] # "str" THEN Raises
              ELSE LET cat == Category(Lower(raw_key[2]), Get(activity_type, "parentTypeId")) IN
                   IF cat = "unclassified" THEN [ok |-> TRUE, cat |-> cat, amount |-> 0]
                   ELSE LET x == GetD(activity, Measure(cat), PyInt(0)) IN
                        IF x[1] # "int" THEN Raises
                        ELSE [ok |-> TRUE, cat |-> cat, amount |-> x[2]]

NoTotals == [ok |-> TRUE,
             count |-> [c \in Categories |-> 0],
             total |-> [c \in Categories |-> 0]]

\* the loop of lines 165-184 from the i-th activity on
RECURSIVE ActivityLoop(_, _, _)
ActivityLoop(acts, i, acc) ==
    IF i > Len(acts) THEN acc
    ELSE LET r == ProcessActivity(acts[i]) IN
         IF ~r.ok THEN Raises
         ELSE IF r.cat = "unclassified" THEN ActivityLoop(acts, i + 1, acc)
         ELSE ActivityLoop(acts, i + 1,
                 [acc EXCEPT !.count[r.cat] = @ + 1, !.total[r.cat] = @ + r.amount])

\* lines 153-186; a total is the sum of the raw amounts, to be divided by
\* 1000 (distance) or 60 (duration)
ProcessActivities(activities) ==
    IF ~Truth(activities) THEN NoTotals
    ELSE IF activities[1] # "list" THEN Raises
    ELSE ActivityLoop(activities[2], 1, NoTotals)

\* a category total as the record holds it: the int 0 it starts as, or the
\* float the additions make it
TotalValue(acc, cat) ==
    IF acc.count[cat] = 0 THEN PyInt(0)
    ELSE Num(acc.total[cat], IF Measure(cat) = "distance" THEN 1000 ELSE 60)

DigitChars == <<"0", "1", "2", "3", "4", "5", "6", "7", "8", "9">>
TwoDigits(n) == <<DigitChars[(n \div 10) + 1], DigitChars[(n % 10) + 1]>>

\* the offset of the local time zone from UTC, in seconds
UtcOffset == 0

\* datetime.fromtimestamp(unix_ms / 1000).strftime('%H:%M:%S')
Clock(unix_ms) ==
    LET t == ((unix_ms \div 1000) + UtcOffset) % 86400 IN
    Str(TwoDigits(t \div 3600) \o <<":">> \o TwoDigits((t % 3600) \div 60)
          \o <<":">> \o TwoDigits(t % 60))

\* a local name no assignment has bound
Unbound == <<"unbound">>

NoSleep == [ok |-> TRUE, sleep_score |-> PyNone, sleep_length |-> PyNone,
            sleep_start |-> Unbound, sleep_end |-> Unbound]

\* lines 217-221: the name is bound only when the timestamp is truthy
ClockOrUnbound(unix) == IF Truth(unix) THEN Clock(unix[2]) ELSE Unbound

\* lines 205-225; sleep_start and sleep_end have no initial assignment
ProcessSleep(sleep_data) ==
    IF ~Truth(sleep_data) THEN NoSleep
    ELSE IF ~HasGet(sleep_data) THEN Raises
    ELSE LET sleep_dto == GetD(sleep_data, "dailySleepDTO", EmptyDict) IN
         IF ~Truth(sleep_dto) THEN NoSleep
         ELSE IF ~HasGet(sleep_dto) THEN Raises
         ELSE LET scores == GetD(sleep_dto, "sleepScores", EmptyDict)
                  overall == GetD(scores, "overall", EmptyDict)
                  sleep_time_seconds == Get(sleep_dto, "sleepTimeSeconds")
                  start_unix == Get(sleep_dto, "sleepStartTimestampGMT")
                  end_unix == Get(sleep_dto, "sleepEndTimestampGMT")
              IN  IF ~HasGet(scores) THEN Raises
                  ELSE IF ~HasGet(overall) THEN Raises
                  ELSE IF sleep_time_seconds[1] \notin {"None", "int"} THEN Raises
                  ELSE IF Truth(start_unix) /\ start_unix[1] # "int" THEN Raises
                  ELSE IF Truth(end_unix) /\ end_unix[1] # "int" THEN Raises
                  ELSE [ok |-> TRUE,
                        sleep_score |-> Get(overall, "value"),
                        sleep_length |->
                            IF ~IsNone(sleep_time_seconds) /\ sleep_time_seconds[2] > 0
                            THEN Num(sleep_time_seconds[2], 3600) ELSE PyNone,
                        sleep_start |-> ClockOrUnbound(start_unix),
                        sleep_end |-> ClockOrUnbound(end_unix)]

\* line 229
Weight(stats) ==
    IF Truth(Get(stats, "weight")) THEN Num(GetD(stats, "weight", PyInt(0))[2], 1000) ELSE PyNone

\* lines 227-234
ProcessStats(stats) ==
    IF ~Truth(stats)
    THEN [ok |-> TRUE, weight |-> PyNone, body_fat |-> PyNone,
          blood_pressure_systolic |-> PyNone, blood_pressure_diastolic |-> PyNone]
    ELSE IF ~HasGet(stats) THEN Raises
    ELSE IF Get(stats, "weight")[1] \notin {"None", "int"} THEN Raises
    ELSE [ok |-> TRUE,
          weight |-> Weight(stats),
          body_fat |-> Get(stats, "bodyFat"),
          blood_pressure_systolic |-> Get(stats, "systolic"),
          blood_pressure_diastolic |-> Get(stats, "diastolic")]

\* x or 0
OrZero(x) == IF Truth(x) THEN x ELSE PyInt(0)

\* line 240
IntensityMinutes(summary) ==
    PyInt(OrZero(GetD(summary, "moderateIntensityMinutes", PyInt(0)))[2]
          + 2 * OrZero(GetD(summary, "vigorousIntensityMinutes", PyInt(0)))[2])

\* lines 236-245
ProcessSummary(summary) ==
    IF ~Truth(summary)
    THEN [ok |-> TRUE, active_calories |-> PyNone, resting_calories |-> PyNone,
          intensity_minutes |-> PyNone, resting_heart_rate |-> PyNone,
          average_stress |-> PyNone, steps |-> PyNone]
    ELSE IF ~HasGet(summary) THEN Raises
    ELSE IF \E k \in {"moderateIntensityMinutes", "vigorousIntensityMinutes"} :
                Get(summary, k)[1] \notin {"None", "int"} THEN Raises
    ELSE [ok |-> TRUE,
          active_calories |-> Get(summary, "activeKilocalories"),
          resting_calories |-> Get(summary, "bmrKilocalories"),
          intensity_minutes |-> IntensityMinutes(summary),
          resting_heart_rate |-> Get(summary, "restingHeartRate"),
          average_stress |-> Get(summary, "averageStressLevel"),
          steps |-> Get(summary, "totalSteps")]

\* lines 251-256: the vo2MaxValue of one entry of mostRecentVO2Max
Vo2Max(most_recent_vo2max, k) ==
    IF Truth(most_recent_vo2max) /\ Truth(Get(most_recent_vo2max, k))
    THEN Get(Get(most_recent_vo2max, k), "vo2MaxValue") ELSE PyNone

\* lines 258-268: a mapping keeps insertion order, modelled as a dict keyed 1..n
TrainingStatusPhrase(training_status) ==
    LET most_recent_training_status == Get(training_status, "mostRecentTrainingStatus")
        latest == IF Truth(most_recent_training_status)
                  THEN Get(most_recent_training_status, "latestTrainingStatusData")
                  ELSE PyNone
        training_status_data == IF Truth(latest) THEN latest ELSE EmptyDict
        first_device == IF Truth(training_status_data) THEN training_status_data[2][1] ELSE PyNone
    IN  IF Truth(first_device) THEN Get(first_device, "trainingStatusFeedbackPhrase") ELSE PyNone

\* a truthy value the code calls .get or .values on without its being a dict
TrainingRaises(training_status) ==
    LET vo2 == Get(training_status, "mostRecentVO2Max")
        mrts == Get(training_status, "mostRecentTrainingStatus")
    IN  \/ Truth(vo2) /\ ~HasGet(vo2)
        \/ Truth(vo2) /\ HasGet(vo2)
             /\ \E k \in {"generic", "cycling"} : Truth(Get(vo2, k)) /\ ~HasGet(Get(vo2, k))
        \/ Truth(mrts) /\ ~HasGet(mrts)
        \/ Truth(mrts) /\ HasGet(mrts)
             /\ LET latest == Get(mrts, "latestTrainingStatusData") IN
                \/ Truth(latest) /\ ~HasGet(latest)
                \/ Truth(latest) /\ HasGet(latest)
                     /\ Truth(latest[2][1]) /\ ~HasGet(latest[2][1])

\* lines 247-270
ProcessTrainingStatus(training_status) ==
    IF ~Truth(training_status)
    THEN [ok |-> TRUE, vo2max_running |-> PyNone, vo2max_cycling |-> PyNone,
          training_status_phrase |-> PyNone]
    ELSE IF ~HasGet(training_status) THEN Raises
    ELSE IF TrainingRaises(training_status) THEN Raises
    ELSE [ok |-> TRUE,
          vo2max_running |-> Vo2Max(Get(training_status, "mostRecentVO2Max"), "generic"),
          vo2max_cycling |-> Vo2Max(Get(training_status, "mostRecentVO2Max"), "cycling"),
          training_status_phrase |-> TrainingStatusPhrase(training_status)]

----------------------------------------------------------------------------
(* The record *)

\* GarminMetrics(date=d) with every other field at its default
GarminMetricsDefaults(d) ==
    [date |-> d,
     sleep_score |-> PyNone, sleep_length |-> PyNone,
     sleep_start |-> PyNone, sleep_end |-> PyNone,
     weight |-> PyNone, body_fat |-> PyNone,
     blood_pressure_systolic |-> PyNone, blood_pressure_diastolic |-> PyNone,
     active_calories |-> PyNone, resting_calories |-> PyNone,
     resting_heart_rate |-> PyNone, average_stress |-> PyNone,
     training_status |-> PyNone,
     vo2max_running |-> PyNone, vo2max_cycling |-> PyNone,
     intensity_minutes |-> PyNone,
     all_activity_count |-> PyNone,
     running_activity_count |-> PyNone, running_distance |-> PyNone,
     cycling_activity_count |-> PyNone, cycling_distance |-> PyNone,
     strength_activity_count |-> PyNone, strength_duration |-> PyNone,
     cardio_activity_count |-> PyNone, cardio_duration |-> PyNone,
     tennis_activity_count |-> PyNone, tennis_activity_duration |-> PyNone,
     overnight_hrv |-> PyNone, hrv_status |-> PyNone,
     steps |-> PyNone]

\* an except clause that returns the bare default record
ExceptHandlerDropsHrv(d, hrv_value, hrv_status) == GarminMetricsDefaults(d)

\* lines 306-312: hrv_value and hrv_status are what locals() holds under
\* 'overnight_hrv_value' and 'hrv_status_value', None when the names are not bound
ExceptHandler(d, hrv_value, hrv_status) ==
    [GarminMetricsDefaults(d) EXCEPT !.overnight_hrv = hrv_value,
                                     !.hrv_status = hrv_status]

\* a count that leaves out the activities no category takes
AllActivityCountClassified(activities) ==
    IF ~Truth(activities) THEN PyInt(0)
    ELSE PyInt(Cardinality({i \in 1..Len(activities[2]) :
                               /\ ProcessActivity(activities[2][i]).ok
                               /\ ProcessActivity(activities[2][i]).cat # "unclassified"}))

\* line 290
AllActivityCount(activities) ==
    IF IsNone(activities) THEN PyInt(0)
    ELSE IF activities[1] = "list" THEN PyInt(Len(activities[2]))
    ELSE PyInt(Cardinality({k \in DOMAIN activities[2] : activities[2][k] # Missing}))

\* lines 272-304
Assemble(d, hrv, acts, sleep, stats, summary, training, activities) ==
    [date |-> d,
     sleep_score |-> sleep.sleep_score, sleep_length |-> sleep.sleep_length,
     sleep_start |-> sleep.sleep_start, sleep_end |-> sleep.sleep_end,
     weight |-> stats.weight, body_fat |-> stats.body_fat,
     blood_pressure_systolic |-> stats.blood_pressure_systolic,
     blood_pressure_diastolic |-> stats.blood_pressure_diastolic,
     active_calories |-> summary.active_calories,
     resting_calories |-> summary.resting_calories,
     resting_heart_rate |-> summary.resting_heart_rate,
     average_stress |-> summary.average_stress,
     training_status |-> training.training_status_phrase,
     vo2max_running |-> training.vo2max_running,
     vo2max_cycling |-> training.vo2max_cycling,
     intensity_minutes |-> summary.intensity_minutes,
     all_activity_count |-> AllActivityCount(activities),
     running_activity_count |-> PyInt(acts.count["running"]),
     running_distance |-> TotalValue(acts, "running"),
     cycling_activity_count |-> PyInt(acts.count["cycling"]),
     cycling_distance |-> TotalValue(acts, "cycling"),
     strength_activity_count |-> PyInt(acts.count["strength"]),
     strength_duration |-> TotalValue(acts, "strength"),
     cardio_activity_count |-> PyInt(acts.count["cardio"]),
     cardio_duration |-> TotalValue(acts, "cardio"),
     tennis_activity_count |-> PyInt(acts.count["tennis"]),
     tennis_activity_duration |-> TotalValue(acts, "tennis"),
     overnight_hrv |-> hrv.overnight_hrv_value,
     hrv_status |-> hrv.hrv_status_value,
     steps |-> summary.steps]

\* lines 139-312: what get_metrics returns once gather has handed back the
\* six payloads p
MergeAndReturn(d, p) ==
    LET hrv == ProcessHrv(p["hrv"]) IN
    IF ~hrv.ok THEN ExceptHandler(d, PyNone, PyNone)
    ELSE LET acts == ProcessActivities(p["activities"])
             sleep == ProcessSleep(p["sleep"])
             stats == ProcessStats(p["stats"])
             summary == ProcessSummary(p["summary"])
             training == ProcessTrainingStatus(p["training_status"])
         IN  IF \/ ~acts.ok \/ ~sleep.ok \/ ~stats.ok \/ ~summary.ok \/ ~training.ok
                \/ sleep.sleep_start = Unbound \/ sleep.sleep_end = Unbound
             THEN ExceptHandler(d, hrv.overnight_hrv_value, hrv.hrv_status_value)
             ELSE Assemble(d, hrv, acts, sleep, stats, summary, training, p["activities"])

----------------------------------------------------------------------------
(* Payloads the remote service returns *)

FullStats == Dict([weight |-> PyInt(68000), bodyFat |-> PyInt(20),
                   systolic |-> PyInt(120), diastolic |-> PyInt(80)])
StatsPayloads ==
    { PyNone,
      Dict([weight |-> Missing, bodyFat |-> Missing, systolic |-> Missing, diastolic |-> Missing]),
      FullStats,
      Dict([weight |-> PyInt(0), bodyFat |-> PyInt(20), systolic |-> PyInt(120), diastolic |-> PyInt(80)]),
      Dict([weight |-> Missing, bodyFat |-> PyInt(20), systolic |-> PyNone, diastolic |-> PyNone]) }

SleepScores(v) == Dict([overall |-> Dict([value |-> PyInt(v)])])
SleepPayload(dto) == Dict([dailySleepDTO |-> dto])
FullSleep ==
    SleepPayload(Dict([sleepScores |-> SleepScores(80), sleepTimeSeconds |-> PyInt(28800),
                       sleepStartTimestampGMT |-> PyInt(79200000),
                       sleepEndTimestampGMT |-> PyInt(21600000)]))
SleepPayloads ==
    { PyNone,
      SleepPayload(Missing),
      FullSleep,
      SleepPayload(Dict([sleepScores |-> SleepScores(80), sleepTimeSeconds |-> PyInt(28800),
                         sleepStartTimestampGMT |-> Missing,
                         sleepEndTimestampGMT |-> Missing])),
      SleepPayload(Dict([sleepScores |-> Missing, sleepTimeSeconds |-> PyInt(0),
                         sleepStartTimestampGMT |-> PyInt(79200000),
                         sleepEndTimestampGMT |-> PyInt(21600000)])),
      SleepPayload(Dict([sleepScores |-> PyNone, sleepTimeSeconds |-> PyInt(28800),
                         sleepStartTimestampGMT |-> PyInt(79200000),
                         sleepEndTimestampGMT |-> PyInt(21600000)])) }

Activity(type_key, parent, distance, duration) ==
    Dict([activityType |-> Dict([typeKey |-> type_key, parentTypeId |-> parent]),
          distance |-> distance, duration |-> duration])
RunActivity ==
    Activity(Str(<<"r", "u", "n", "n", "i", "n", "g">>), PyInt(1), PyInt(5000), PyInt(1800))
YogaActivity ==
    Activity(Str(<<"y", "o", "g", "a">>), PyInt(4), PyInt(0), PyInt(3600))
StrengthActivity ==
    Activity(Str(<<"S", "t", "r", "e", "n", "g", "t", "h", "_", "t", "r", "a", "i", "n", "i", "n", "g">>),
             Missing, Missing, PyInt(2400))
FullActivities == List(<<RunActivity, YogaActivity>>)
\* activities that more than one rule of the chain matches
OverlapActivities ==
    List(<<Activity(Str(<<"r", "u", "n", "n", "i", "n", "g", "_", "s", "t", "r", "e", "n", "g", "t", "h", "_", "c", "o", "m", "b", "o">>), Missing, PyInt(5000), PyInt(1800)),
           Activity(Str(<<"c", "y", "c", "l", "i", "n", "g">>), PyInt(1), PyInt(10000), PyInt(3600)),
           Activity(Str(<<"o", "t", "h", "e", "r">>), PyInt(2), PyInt(20000), PyInt(3000)),
           Activity(Str(<<"V", "i", "r", "t", "u", "a", "l", "_", "R", "i", "d", "e">>), Missing, PyInt(30000), PyInt(5400)),
           Activity(Str(<<"s", "t", "r", "e", "n", "g", "t", "h", "_", "c", "y", "c", "l", "i", "n", "g">>), PyInt(2), PyInt(0), PyInt(1200))>>)
\* activities of the three timed categories and of none
TimedActivities ==
    List(<<Activity(Str(<<"i", "n", "d", "o", "o", "r", "_", "c", "a", "r", "d", "i", "o", "_", "t", "e", "n", "n", "i", "s">>), Missing, Missing, PyInt(1500)),
           Activity(Str(<<"T", "E", "N", "N", "I", "S", "_", "v", "2">>), Missing, PyInt(0), PyInt(2700)),
           Activity(Str(<<"c", "a", "r", "d", "i", "o">>), PyInt(9), Missing, PyInt(600)),
           Dict([activityType |-> Missing, distance |-> PyInt(7000), duration |-> PyInt(900)]),
           Activity(Missing, PyInt(4), PyInt(8000), PyInt(3600))>>)
ActivitiesPayloads ==
    { PyNone,
      List(<<>>),
      FullActivities,
      OverlapActivities,
      TimedActivities,
      List(<<StrengthActivity, RunActivity>>),
      List(<<Activity(Str(<<"t", "r", "a", "i", "l", "_", "r", "u", "n">>), Missing, PyNone, PyInt(1800))>>) }

FullSummary ==
    Dict([activeKilocalories |-> PyInt(500), bmrKilocalories |-> PyInt(1600),
          moderateIntensityMinutes |-> PyInt(30), vigorousIntensityMinutes |-> PyInt(10),
          restingHeartRate |-> PyInt(55), averageStressLevel |-> PyInt(25),
          totalSteps |-> PyInt(9000)])
SummaryPayloads ==
    { PyNone,
      Dict([activeKilocalories |-> Missing, bmrKilocalories |-> Missing,
            moderateIntensityMinutes |-> Missing, vigorousIntensityMinutes |-> Missing,
            restingHeartRate |-> Missing, averageStressLevel |-> Missing,
            totalSteps |-> Missing]),
      FullSummary,
      Dict([activeKilocalories |-> PyInt(500), bmrKilocalories |-> PyInt(1600),
            moderateIntensityMinutes |-> Missing, vigorousIntensityMinutes |-> PyNone,
            restingHeartRate |-> PyInt(55), averageStressLevel |-> Missing,
            totalSteps |-> PyInt(0)]) }

Vo2(v) == Dict([vo2MaxValue |-> PyInt(v)])
Device(phrase) == Dict([trainingStatusFeedbackPhrase |-> Str(phrase)])
FullTrainingStatus ==
    Dict([mostRecentVO2Max |-> Dict([generic |-> Vo2(50), cycling |-> Vo2(48)]),
          mostRecentTrainingStatus |->
              Dict([latestTrainingStatusData |->
                        Dict(<<Device(<<"P", "R", "O", "D", "U", "C", "T", "I", "V", "E">>),
                               Device(<<"P", "E", "A", "K", "I", "N", "G">>)>>)])])
TrainingStatusPayloads ==
    { PyNone,
      Dict([mostRecentVO2Max |-> Missing, mostRecentTrainingStatus |-> Missing]),
      FullTrainingStatus,
      Dict([mostRecentVO2Max |-> Dict([generic |-> Vo2(50), cycling |-> PyNone]),
            mostRecentTrainingStatus |-> Dict([latestTrainingStatusData |-> EmptyDict])]) }

FullHrv == Dict([hrvSummary |-> Dict([lastNightAvg |-> PyInt(45),
                                      status |-> Str(<<"B", "A", "L", "A", "N", "C", "E", "D">>)])])
HrvPayloads ==
    { PyNone,
      Dict([hrvSummary |-> Missing]),
      FullHrv,
      Dict([hrvSummary |-> Dict([lastNightAvg |-> PyInt(0), status |-> Missing])]),
      Dict([hrvSummary |-> List(<<PyInt(45)>>)]),
      List(<<PyInt(45)>>) }

\* every payload a fetch of source s may return
Payloads(s) ==
    CASE s = "stats" -> StatsPayloads
      [] s = "sleep" -> SleepPayloads
      [] s = "activities" -> ActivitiesPayloads
      [] s = "summary" -> SummaryPayloads
      [] s = "training_status" -> TrainingStatusPayloads
      [] s = "hrv" -> HrvPayloads

Full(s) ==
    CASE s = "stats" -> FullStats
      [] s = "sleep" -> FullSleep
      [] s = "activities" -> FullActivities
      [] s = "summary" -> FullSummary
      [] s = "training_status" -> FullTrainingStatus
      [] s = "hrv" -> FullHrv

\* the payload combinations: every one, the one where each source returns a
\* complete payload, and those where each returns nothing or a complete payload
AllPayloads ==
    [stats : Payloads("stats"), sleep : Payloads("sleep"),
     activities : Payloads("activities"), summary : Payloads("summary"),
     training_status : Payloads("training_status"), hrv : Payloads("hrv")]
Complete == {[s \in Sources |-> Full(s)]}
Fixtures ==
    [stats : {PyNone, Full("stats")}, sleep : {PyNone, Full("sleep")},
     activities : {PyNone, Full("activities")}, summary : {PyNone, Full("summary")},
     training_status : {PyNone, Full("training_status")}, hrv : {PyNone, Full("hrv")}]

----------------------------------------------------------------------------
(* get_metrics(target_date) *)

AlreadyFailed == Exc("Exception", <<"Authentication has already failed. Cannot fetch metrics.">>)

\* lines 96-137: the session check, authenticate() when the session is not
\* authenticated, and the creation of the six fetches
GetMetricsCall ==
    /\ pc = "idle"
    /\ op' = "get_metrics"
    /\ resume_arg' = "none"
    /\ resume_result' = NotCalled
    /\ metrics' = PyNone
    /\ results' = NoResults
    /\ \E d \in Dates : target_date' = d
    /\ IF authenticated
       THEN /\ raised' = NoExc
            /\ login_result' = NotCalled
            /\ loads_invoked' = FALSE
            /\ profile_result' = NotRead
            /\ overwritten_ticket' = "none"
            /\ pc' = "gather"
            /\ fetch' = [s \in Sources |-> "inflight"]
            /\ pending_token' = "none"
            /\ UNCHANGED <<authenticated, mfa_ticket_dict, display_name>>
       ELSE IF auth_failed
       THEN /\ raised' = AlreadyFailed
            /\ login_result' = NotCalled
            /\ loads_invoked' = FALSE
            /\ profile_result' = NotRead
            /\ overwritten_ticket' = "none"
            /\ pc' = "idle"
            /\ fetch' = NoTasks
            /\ pending_token' = "none"
            /\ UNCHANGED <<authenticated, mfa_ticket_dict, display_name>>
       ELSE \E i \in AuthInputs :
              LET r == authenticate(i) IN
              /\ authenticated' = r.authenticated
              /\ mfa_ticket_dict' = r.mfa_ticket_dict
              /\ pending_token' = r.oauth2_token
              /\ display_name' = r.display_name
              /\ raised' = r.raised
              /\ login_result' = r.login_result
              /\ loads_invoked' = r.loads_invoked
              /\ profile_result' = r.profile_result
              /\ overwritten_ticket' = r.overwritten
              /\ pc' = IF r.raised = NoExc THEN "gather" ELSE "idle"
              /\ fetch' = IF r.raised = NoExc THEN [s \in Sources |-> "inflight"] ELSE NoTasks
    /\ UNCHANGED <<auth_failed, mfa_failed>>

\* a fetch returns its payload to gather
FetchReturn ==
    /\ pc = "gather"
    /\ \E s \in Sources :
         /\ fetch[s] = "inflight"
         /\ fetch' = [fetch EXCEPT ![s] = "returned"]
    /\ UNCHANGED <<authenticated, auth_failed, mfa_ticket_dict, pending_token, display_name,
                   pc, target_date, results, op, raised, metrics,
                   login_result, loads_invoked, resume_arg, resume_result,
                   profile_result, mfa_failed, overwritten_ticket>>

\* a failing fetch that marks the session as not authenticated
FetchRaiseDeauthenticates ==
    /\ pc = "gather"
    /\ \E s \in Sources :
         /\ fetch[s] = "inflight"
         /\ fetch' = [fetch EXCEPT ![s] = IF s = "hrv" THEN "caught" ELSE "failed"]
    /\ authenticated' = FALSE
    /\ UNCHANGED <<auth_failed, mfa_ticket_dict, pending_token, display_name,
                   pc, target_date, results, op, raised, metrics,
                   login_result, loads_invoked, resume_arg, resume_result,
                   profile_result, mfa_failed, overwritten_ticket>>

\* a fetch raises: _fetch_hrv_data catches the exception and returns None
\* (lines 92-94), the other five let it reach gather
FetchRaise ==
    /\ pc = "gather"
    /\ \E s \in Sources :
         /\ fetch[s] = "inflight"
         /\ fetch' = [fetch EXCEPT ![s] = IF s = "hrv" THEN "caught" ELSE "failed"]
    /\ UNCHANGED <<authenticated, auth_failed, mfa_ticket_dict, pending_token, display_name,
                   pc, target_date, results, op, raised, metrics,
                   login_result, loads_invoked, resume_arg, resume_result,
                   profile_result, mfa_failed, overwritten_ticket>>

\* gather is awaited and one of its awaitables has raised
GatherFailed == pc = "gather" /\ \E s \in Sources : fetch[s] = "failed"

\* gather is awaited and each of its awaitables has returned
GatherSettled == pc = "gather" /\ \A s \in Sources : fetch[s] \in {"returned", "caught"}

\* gather propagates the first exception to get_metrics without waiting for
\* the other awaitables; the except clause of line 306 returns the record.
\* p holds the payloads of the awaitables that have returned, which gather drops
GatherRaise(p) ==
    /\ GatherFailed
    /\ results' = [s \in Sources |-> IF fetch[s] = "returned" THEN p[s] ELSE Missing]
    /\ metrics' = <<"GarminMetrics", ExceptHandler(target_date, PyNone, PyNone)>>
    /\ pc' = "idle"
    /\ UNCHANGED <<authenticated, auth_failed, mfa_ticket_dict, pending_token, display_name,
                   target_date, fetch, op, raised,
                   login_result, loads_invoked, resume_arg, resume_result,
                   profile_result, mfa_failed, overwritten_ticket>>

\* all six awaitables have returned p (None from an HRV fetch that caught
\* its exception): gather hands p back and get_metrics merges it
GatherDone(p) ==
    /\ GatherSettled
    /\ fetch["hrv"] = "caught" => p["hrv"] = PyNone
    /\ results' = p
    /\ metrics' = <<"GarminMetrics", MergeAndReturn(target_date, p)>>
    /\ pc' = "idle"
    /\ UNCHANGED <<authenticated, auth_failed, mfa_ticket_dict, pending_token, display_name,
                   target_date, fetch, op, raised,
                   login_result, loads_invoked, resume_arg, resume_result,
                   profile_result, mfa_failed, overwritten_ticket>>

\* the last call invoked self.client.login()
LoginInvoked == login_result # NotCalled

----------------------------------------------------------------------------
(* GarminClient.__init__ (lines 15-19) *)

\* the client is driven directly, not by sync
SyncNotRunning ==
    /\ sync_pc = "off"
    /\ start_date = 1
    /\ end_date = 1
    /\ output_type = "sheets"
    /\ current_date = 1
    /\ metrics_to_write = <<>>
    /\ calls = <<>>
    /\ sink = <<>>

\* the client as __init__ leaves it, no call made yet
NewClient ==
    /\ authenticated = FALSE
    /\ mfa_ticket_dict = "none"
    /\ auth_failed = FALSE
    /\ pending_token = "none"
    /\ display_name = "None"
    /\ pc = "idle"
    /\ target_date = 1
    /\ fetch = NoTasks
    /\ results = NoResults
    /\ op = "none"
    /\ raised = NoExc
    /\ metrics = PyNone
    /\ login_result = NotCalled
    /\ loads_invoked = FALSE
    /\ resume_arg = "none"
    /\ resume_result = NotCalled
    /\ profile_result = NotRead
    /\ mfa_failed = FALSE
    /\ overwritten_ticket = "none"

Init ==
    /\ NewClient
    /\ SyncNotRunning

Next ==
    \/ Authenticate /\ UNCHANGED syncVars
    \/ SubmitMfaCode /\ UNCHANGED syncVars
    \/ GetMetricsCall /\ UNCHANGED syncVars
    \/ FetchReturn /\ UNCHANGED syncVars
    \/ FetchRaise /\ UNCHANGED syncVars
    \/ GatherFailed /\ (\E p \in Complete : GatherRaise(p)) /\ UNCHANGED syncVars
    \/ GatherSettled /\ (\E p \in Fixtures : GatherDone(p)) /\ UNCHANGED syncVars

Spec == Init /\ [][Next]_vars

\* The pipeline on its own: a session a successful authenticate() has just
\* left, and every payload combination
InitPipeline ==
    /\ authenticated = TRUE
    /\ mfa_ticket_dict = "none"
    /\ auth_failed = FALSE
    /\ pending_token = "object"
    /\ display_name = "user"
    /\ pc = "idle"
    /\ target_date = 1
    /\ fetch = NoTasks
    /\ results = NoResults
    /\ op = "authenticate"
    /\ raised = NoExc
    /\ metrics = PyNone
    /\ login_result = NoExc
    /\ loads_invoked = FALSE
    /\ resume_arg = "none"
    /\ resume_result = NotCalled
    /\ profile_result = NotRead
    /\ mfa_failed = FALSE
    /\ overwritten_ticket = "none"
    /\ SyncNotRunning

NextPipeline ==
    \/ GetMetricsCall /\ UNCHANGED syncVars
    \/ FetchReturn /\ UNCHANGED syncVars
    \/ FetchRaise /\ UNCHANGED syncVars
    \/ GatherFailed /\ (\E p \in Fixtures : GatherRaise(p)) /\ UNCHANGED syncVars
    \/ GatherSettled /\ (\E p \in AllPayloads : GatherDone(p)) /\ UNCHANGED syncVars

SpecPipeline == InitPipeline /\ [][NextPipeline]_vars

----------------------------------------------------------------------------
(* main.py sync(): authenticate, fetch every date of the range, hand the   *)
(* records to the output.  sync_pc is the position of the coroutine:       *)
(* "start" before line 29, "loop" at the test of line 44, "await" inside   *)
(* the get_metrics call of line 46, "write" at line 54, "done" after a     *)
(* return, "aborted" after sys.exit(1) of lines 35/39, "failed" after      *)
(* sys.exit(1) of lines 73/78, "crashed" after an exception left sync.     *)

\* --output-type is a free string (line 128)
OutputTypes == {"sheets", "csv", "other"}

\* a sync that goes on to the date loop whatever authenticate() did
AuthenticationHandlerContinues(exc) == "loop"

\* lines 29-39: both except clauses end the process
AuthenticationHandler(exc) == IF exc = NoExc THEN "loop" ELSE "aborted"

\* a loop that stops before end_date
LoopTestExclusive(cur, end) == cur < end

\* line 44
LoopTest(cur, end) == cur <= end

\* what the service returns during a run: every payload, with or without HRV
SyncPayloads == {p \in Fixtures : \A s \in Sources \ {"hrv"} : p[s] = Full(s)}

\* lines 29-39
SyncAuthenticate ==
    /\ sync_pc = "start"
    /\ Authenticate
    /\ sync_pc' = AuthenticationHandler(raised')
    /\ UNCHANGED <<start_date, end_date, output_type, current_date,
                   metrics_to_write, calls, sink>>

\* lines 44-46: the loop test holds and get_metrics(current_date) is called;
\* an exception of get_metrics is not caught
SyncGetMetrics ==
    /\ sync_pc = "loop"
    /\ LoopTest(current_date, end_date)
    /\ GetMetricsCall
    /\ target_date' = current_date
    /\ calls' = Append(calls, current_date)
    /\ sync_pc' = IF raised' = NoExc THEN "await" ELSE "crashed"
    /\ UNCHANGED <<start_date, end_date, output_type, current_date,
                   metrics_to_write, sink>>

SyncFetchReturn ==
    /\ sync_pc = "await"
    /\ FetchReturn
    /\ UNCHANGED syncVars

SyncFetchRaise ==
    /\ sync_pc = "await"
    /\ FetchRaise
    /\ UNCHANGED syncVars

\* lines 47-48
Collect ==
    /\ metrics_to_write' = Append(metrics_to_write, metrics')
    /\ current_date' = current_date + 1
    /\ sync_pc' = "loop"
    /\ UNCHANGED <<start_date, end_date, output_type, calls, sink>>

\* get_metrics returns the record of its except clause
SyncGatherRaise ==
    /\ sync_pc = "await"
    /\ GatherFailed
    /\ \E p \in Complete : GatherRaise(p)
    /\ Collect

\* get_metrics returns the merged record
SyncGatherDone ==
    /\ sync_pc = "await"
    /\ GatherSettled
    /\ \E p \in SyncPayloads : GatherDone(p)
    /\ Collect

\* lines 44 and 50-52: the loop test fails; sync returns if it collected nothing
SyncLoopExit ==
    /\ sync_pc = "loop"
    /\ ~LoopTest(current_date, end_date)
    /\ sync_pc' = IF metrics_to_write = <<>> THEN "done" ELSE "write"
    /\ UNCHANGED <<clientVars, start_date, end_date, output_type, current_date,
                   metrics_to_write, calls, sink>>

\* lines 54-78: GoogleSheetsClient (sheets_client.py lines 12-76) has no
\* update_metrics, so line 66 raises AttributeError if the constructor has
\* not raised before it; line 75 catches either and the process exits
SyncWriteSheets ==
    /\ sync_pc = "write"
    /\ output_type = "sheets"
    /\ sync_pc' = "failed"
    /\ UNCHANGED <<clientVars, start_date, end_date, output_type, current_date,
                   metrics_to_write, calls, sink>>

\* lines 80-98: one row per record, in order; an OSError of open() or of a
\* writerow leaves sync with the rows written so far
SyncWriteCsv ==
    /\ sync_pc = "write"
    /\ output_type = "csv"
    /\ \/ /\ sink' = metrics_to_write
          /\ sync_pc' = "done"
       \/ /\ \E n \in 0..(Len(metrics_to_write) - 1) : sink' = SubSeq(metrics_to_write, 1, n)
          /\ sync_pc' = "crashed"
    /\ UNCHANGED <<clientVars, start_date, end_date, output_type, current_date,
                   metrics_to_write, calls>>

\* neither branch of lines 54 and 80 is taken
SyncWriteNothing ==
    /\ sync_pc = "write"
    /\ output_type \notin {"sheets", "csv"}
    /\ sync_pc' = "done"
    /\ UNCHANGED <<clientVars, start_date, end_date, output_type, current_date,
                   metrics_to_write, calls, sink>>

\* sync is called with a new GarminClient (line 30); metrics_to_write and
\* current_date hold what lines 42-43 give them
InitSync ==
    /\ NewClient
    /\ sync_pc = "start"
    /\ start_date \in Dates
    /\ end_date \in Dates
    /\ output_type \in OutputTypes
    /\ current_date = start_date
    /\ metrics_to_write = <<>>
    /\ calls = <<>>
    /\ sink = <<>>

NextSync ==
    \/ SyncAuthenticate
    \/ SyncGetMetrics
    \/ SyncFetchReturn
    \/ SyncFetchRaise
    \/ SyncGatherRaise
    \/ SyncGatherDone
    \/ SyncLoopExit
    \/ SyncWriteSheets
    \/ SyncWriteCsv
    \/ SyncWriteNothing

\* The event loop resumes sync whenever the call it awaits has ended, and
\* every call to the service returns or raises: a step that is possible is
\* taken
SpecSync == InitSync /\ [][NextSync]_vars /\ WF_vars(NextSync)

----------------------------------------------------------------------------
(* Properties *)

\* get_metrics has returned a record
Returned == metrics[1] = "GarminMetrics"

\* gather handed the six payloads to the merge
Merged == \A s \in Sources : results[s] # Missing

\* the record fields each source feeds
SourceFields(s) ==
    CASE s = "stats" -> {"weight", "body_fat", "blood_pressure_systolic", "blood_pressure_diastolic"}
      [] s = "sleep" -> {"sleep_score", "sleep_length", "sleep_start", "sleep_end"}
      [] s = "activities" ->
            {"all_activity_count", "running_activity_count", "running_distance",
             "cycling_activity_count", "cycling_distance", "strength_activity_count",
             "strength_duration", "cardio_activity_count", "cardio_duration",
             "tennis_activity_count", "tennis_activity_duration"}
      [] s = "summary" ->
            {"active_calories", "resting_calories", "intensity_minutes",
             "resting_heart_rate", "average_stress", "steps"}
      [] s = "training_status" -> {"vo2max_running", "vo2max_cycling", "training_status"}
      [] s = "hrv" -> {"overnight_hrv", "hrv_status"}

Populated(s, rec) == \A f \in SourceFields(s) : rec[f] # PyNone
Absent(s, rec) == \A f \in SourceFields(s) : rec[f] = PyNone
\* absent, or the zero an activity count or total starts from
AbsentOrZero(s, rec) == \A f \in SourceFields(s) : rec[f] \in {PyNone, PyInt(0)}

FailedSources == {s \in Sources : fetch[s] \in {"failed", "caught"}}

\* C1: once a submit_mfa_code call has failed, every later get_metrics call
\* raises at the session check, without calling login and without creating
\* any of the six fetches.
C1_FailedLatchesGetMetrics ==
    (mfa_failed /\ op = "get_metrics")
        => (raised = AlreadyFailed /\ ~LoginInvoked /\ fetch = NoTasks)

\* C2: when authenticate() fails with anything but the MFA challenge, the
\* session is Failed, and the get_metrics call that follows fails at the
\* session check without calling login again.
C2_AuthFailureLatches ==
    [][(/\ op = "authenticate"
        /\ raised.type \notin {"none", "MFARequiredException"}
        /\ op' = "get_metrics")
          => (auth_failed /\ raised' = AlreadyFailed /\ login_result' = NotCalled)]_vars

\* C3: a submit_mfa_code call that passed the ticket to resume_login leaves
\* no live ticket, whether the resumption succeeded or failed, and the
\* submit_mfa_code call after it is rejected for the missing ticket without
\* calling resume_login.
C3_TicketConsumedOnce ==
    [][(pc = "idle" /\ op' = "submit_mfa_code")
          => /\ resume_arg' # "none" => ~Truthy(mfa_ticket_dict')
             /\ (op = "submit_mfa_code" /\ resume_arg # "none")
                   => (raised' = NoTicket /\ resume_arg' = "none")]_vars

\* C4: authenticate() on a session that is already authenticated does
\* nothing: no token load, no login call, no exception, and the
\* authenticated flag, the failed flag and the ticket keep their values.
C4_AuthenticateIdempotent ==
    [][(authenticated /\ pc = "idle" /\ op' = "authenticate")
          => /\ login_result' = NotCalled
             /\ ~loads_invoked'
             /\ raised' = NoExc
             /\ UNCHANGED sessionVars]_vars

\* C5: when exactly one of the six fetches fails and the other five return
\* complete payloads, the record get_metrics returns has the fields of the
\* failing source absent and every field of the other five populated.
C5_OneFailureBlanksOneSource ==
    (/\ Returned
     /\ Cardinality(FailedSources) = 1
     /\ \A s \in Sources \ FailedSources : fetch[s] = "returned" /\ results[s] = Full(s))
        => \A s \in Sources :
              IF s \in FailedSources THEN Absent(s, metrics[2]) ELSE Populated(s, metrics[2])

\* C6: get_metrics returns its record only once all six fetches have
\* settled; no fetch is still in flight when the record is returned.
C6_ReturnsAfterAllSettled ==
    Returned => \A s \in Sources : fetch[s] # "inflight"

\* C7: authenticate() on a session that is not authenticated ends in one of
\* three ways: it returns with the session authenticated, it raises the MFA
\* challenge carrying a ticket, or it raises an authentication error.
C7_ThreeOutcomes ==
    [][(~authenticated /\ pc = "idle" /\ op' = "authenticate")
          => \/ raised' = NoExc /\ authenticated'
             \/ raised'.type = "MFARequiredException" /\ IsDict(raised'.mfa_data)
             \/ raised'.type = "GarminConnectAuthenticationError"]_vars

\* the two failures of the login call that stand for an MFA challenge
ChallengeShapes ==
    { Exc("AttributeError", ExpiredText),
      Exc("GarminConnectAuthenticationError", <<"MFA-required">>),
      Exc("GarminConnectAuthenticationError", <<"Login failed: ", "Authentication failed">>) }

\* C8: when the login call fails in either challenge shape and the client's
\* oauth2_token is a dict, authenticate() raises the MFA challenge with that
\* dict as its ticket, the session keeps the same dict as its ticket, and
\* the session is not authenticated.
C8_ChallengeCapturesTicket ==
    (op = "authenticate" /\ login_result \in ChallengeShapes /\ IsDict(pending_token))
        => /\ raised.type = "MFARequiredException"
           /\ raised.mfa_data = pending_token
           /\ mfa_ticket_dict = pending_token
           /\ ~authenticated

\* C9: on an authenticated session whose six fetches each return nothing or
\* a complete payload, get_metrics returns without raising one record for
\* the requested date in which the fields of every source that returned a
\* payload are populated and the fields of every source that returned
\* nothing are absent.
C9_MissingSourceBlanksOnlyItself ==
    (Returned /\ Merged /\ \A s \in Sources : results[s] \in {PyNone, Full(s)})
        => /\ raised = NoExc
           /\ metrics[2].date = target_date
           /\ \A s \in Sources :
                 IF results[s] = PyNone THEN AbsentOrZero(s, metrics[2])
                 ELSE Populated(s, metrics[2])

\* a fetch raised into gather, or the merge raised
MergeRaised(p) ==
    \/ ~ProcessHrv(p["hrv"]).ok
    \/ ~ProcessActivities(p["activities"]).ok
    \/ ~ProcessSleep(p["sleep"]).ok
    \/ ~ProcessStats(p["stats"]).ok
    \/ ~ProcessSummary(p["summary"]).ok
    \/ ~ProcessTrainingStatus(p["training_status"]).ok
    \/ Unbound \in {ProcessSleep(p["sleep"]).sleep_start, ProcessSleep(p["sleep"]).sleep_end}
PipelineFailed ==
    \/ \E s \in Sources : fetch[s] = "failed"
    \/ Merged /\ MergeRaised(results)

\* the HRV step (lines 139-150) ran to its end before the failure
HrvStepRan == Merged /\ ProcessHrv(results["hrv"]).ok

\* C10: when get_metrics fails after the session check, it returns a record
\* with the requested date, with the HRV value and status the HRV step
\* derived if that step had run and absent otherwise, and with every other
\* field at its default.
C10_FailureReturnsMinimalRecord ==
    (op = "get_metrics" /\ pc = "idle" /\ fetch # NoTasks /\ PipelineFailed)
        => /\ raised = NoExc
           /\ Returned
           /\ metrics[2].date = target_date
           /\ metrics[2].overnight_hrv =
                 IF HrvStepRan THEN ProcessHrv(results["hrv"]).overnight_hrv_value ELSE PyNone
           /\ metrics[2].hrv_status =
                 IF HrvStepRan THEN ProcessHrv(results["hrv"]).hrv_status_value ELSE PyNone
           /\ \A f \in DOMAIN metrics[2] \ {"date", "overnight_hrv", "hrv_status"} :
                 metrics[2][f] = GarminMetricsDefaults(target_date)[f]

\* the merge failed after the HRV step had derived a value from the payload
C10_Witness ==
    /\ Returned
    /\ Merged
    /\ results["hrv"] = FullHrv
    /\ results["stats"] = FullStats
    /\ MergeRaised(results)
    /\ metrics[2].overnight_hrv = PyInt(45)
    /\ metrics[2].weight = PyNone

\* C11: a get_metrics call leaves fetches behind only on an authenticated
\* session.  On a session that is neither authenticated nor failed it runs
\* authenticate() first; when that raises, the exception reaches the caller,
\* no fetch is created and no record is returned; when it returns, the
\* session is authenticated and the six fetches are created.
C11_FetchOnlyWhenAuthenticated ==
    [][(pc = "idle" /\ op' = "get_metrics")
          => /\ fetch' # NoTasks => authenticated'
             /\ (~authenticated /\ ~auth_failed)
                   => /\ login_result' # NotCalled \/ loads_invoked'
                      /\ raised' # NoExc
                            => (fetch' = NoTasks /\ pc' = "idle" /\ metrics' = PyNone)
                      /\ raised' = NoExc
                            => (authenticated' /\ \A s \in Sources : fetch'[s] = "inflight")]_vars

\* get_metrics on a session that was not authenticated met the MFA challenge
C11_Witness ==
    /\ op = "get_metrics"
    /\ login_result # NotCalled
    /\ raised.type = "MFARequiredException"
    /\ ~authenticated
    /\ fetch = NoTasks
    /\ metrics = PyNone

\* C12: submit_mfa_code on a session that holds no ticket (None, or the
\* empty dict) raises the missing-ticket exception without calling
\* resume_login and leaves the authenticated flag, the failed flag, the
\* ticket and the display name as they were.
C12_NoTicketRejected ==
    [][(pc = "idle" /\ mfa_ticket_dict \in {"none", "dict_empty"} /\ op' = "submit_mfa_code")
          => /\ raised' = NoTicket
             /\ resume_result' = NotCalled
             /\ resume_arg' = "none"
             /\ UNCHANGED <<authenticated, auth_failed, mfa_ticket_dict, display_name>>]_vars

\* submit_mfa_code was rejected on an authenticated session, which stayed so
C12_Witness ==
    /\ op = "submit_mfa_code"
    /\ raised = NoTicket
    /\ authenticated
    /\ ~auth_failed

\* the text of the failure the try block of submit_mfa_code ended with
SubmitFailureText ==
    IF resume_result.type = "tuple"
    THEN <<"Critical error: Could not retrieve garth.Client instance.">>
    ELSE IF resume_result.type = "not_tuple"
    THEN <<"MFA token processing failed: Unexpected result from resume_login.">>
    ELSE resume_result.msg

RateLimited == Exc("Exception", <<"Garmin is rate limiting your requests. Wait 5-10 mins.">>)

\* C13: a submit_mfa_code call that got past the ticket check and did not
\* succeed raises to its caller and leaves the session failed and not
\* authenticated; it raises the rate-limit exception exactly when the text
\* of the underlying failure contains "429", and the ordinary MFA failure
\* carrying that text otherwise.
C13_SubmitFailureLatches ==
    (/\ op = "submit_mfa_code"
     /\ resume_arg # "none"
     /\ (resume_result.type # "tuple" \/ resume_arg # "dict_t1"))
        => /\ raised # NoExc
           /\ auth_failed
           /\ ~authenticated
           /\ raised = RateLimited <=> Contains(<<"429">>, SubmitFailureText)
           /\ raised # RateLimited
                 => raised = Exc("Exception", <<"MFA failed: ">> \o SubmitFailureText)

\* resume_login failed with a text that holds "429"
C13_Witness ==
    /\ op = "submit_mfa_code"
    /\ resume_result.type = "GarthHTTPError"
    /\ Contains(<<"429">>, resume_result.msg)
    /\ raised = RateLimited
    /\ auth_failed

C15_TokenLoadSkipsLogin ==
    (loads_invoked /\ profile_result[1] = "data")
        => /\ raised = NoExc
           /\ authenticated
           /\ display_name = profile_result[2]
           /\ login_result = NotCalled

\* authenticate() hydrated the session from the persisted tokens
C15_Witness ==
    /\ op = "authenticate"
    /\ loads_invoked
    /\ profile_result = <<"data", "user">>
    /\ display_name = "user"
    /\ authenticated
    /\ login_result = NotCalled

\* C16: the session is never authenticated and failed at once.
C16_NeverAuthenticatedAndFailed == ~(authenticated /\ auth_failed)

\* get_metrics merged the six payloads and returned the record it assembled
Assembled == Returned /\ Merged /\ ~MergeRaised(results)

\* the entries of the activities payload the merge went through
ActivityList == IF Truth(results["activities"]) THEN results["activities"][2] ELSE <<>>

\* the lowered type key and the parent type id of an activity
TypeKeyOf(activity) ==
    LET activity_type == GetD(activity, "activityType", EmptyDict)
    IN  Lower(GetD(activity_type, "typeKey", Str(<<>>))[2])
ParentOf(activity) == Get(GetD(activity, "activityType", EmptyDict), "parentTypeId")

\* the five rules, in the order they are stated
RuleOrder == <<"running", "cycling", "strength", "cardio", "tennis">>
RuleMatches(cat, type_key, parent) ==
    CASE cat = "running" -> Contains(<<"r", "u", "n">>, type_key) \/ parent = PyInt(1)
      [] cat = "cycling" -> \/ Contains(<<"v", "i", "r", "t", "u", "a", "l", "_", "r", "i", "d", "e">>, type_key)
                            \/ Contains(<<"c", "y", "c", "l", "i", "n", "g">>, type_key)
                            \/ parent = PyInt(2)
      [] cat = "strength" -> Contains(<<"s", "t", "r", "e", "n", "g", "t", "h">>, type_key)
      [] cat = "cardio" -> Contains(<<"c", "a", "r", "d", "i", "o">>, type_key)
      [] cat = "tennis" -> Contains(<<"t", "e", "n", "n", "i", "s">>, type_key)

\* the category of the first rule that matches, unclassified when none does
FirstMatch(activity) ==
    LET hits == {k \in 1..Len(RuleOrder) :
                    RuleMatches(RuleOrder[k], TypeKeyOf(activity), ParentOf(activity))}
    IN  IF hits = {} THEN "unclassified"
        ELSE RuleOrder[CHOOSE k \in hits : \A j \in hits : k <= j]

\* the first matching rule of each activity of the payload
Firsts == [i \in 1..Len(ActivityList) |-> FirstMatch(ActivityList[i])]

\* the activities among those whose first matching rule is cat
MembersOf(first, cat) == {i \in DOMAIN first : first[i] = cat}
Members(cat) == MembersOf(Firsts, cat)

\* the record field that holds the count, and the total, of a category
CountField(cat) == metrics[2][
    CASE cat = "running" -> "running_activity_count"
      [] cat = "cycling" -> "cycling_activity_count"
      [] cat = "strength" -> "strength_activity_count"
      [] cat = "cardio" -> "cardio_activity_count"
      [] cat = "tennis" -> "tennis_activity_count"]
TotalField(cat) == metrics[2][
    CASE cat = "running" -> "running_distance"
      [] cat = "cycling" -> "cycling_distance"
      [] cat = "strength" -> "strength_duration"
      [] cat = "cardio" -> "cardio_duration"
      [] cat = "tennis" -> "tennis_activity_duration"]

\* C17: every activity of the payload falls under exactly one of running,
\* cycling, strength, cardio, tennis and unclassified, the one of the first
\* rule that matches in that order, and it is counted in that category and
\* no other: each category count of the record is the number of activities
\* whose first matching rule is that category.
C17_ClassifierFirstMatch ==
    Assembled
        => LET first == Firsts IN
           /\ \A i \in 1..Len(ActivityList) :
                 /\ first[i] \in Categories \cup {"unclassified"}
                 /\ Category(TypeKeyOf(ActivityList[i]), ParentOf(ActivityList[i])) = first[i]
           /\ \A c \in Categories : CountField(c) = PyInt(Cardinality(MembersOf(first, c)))

\* activities that match the running rule and a later one were counted as
\* running only
C17_Witness ==
    /\ Assembled
    /\ results["activities"] = OverlapActivities
    /\ CountField("running") = PyInt(2)
    /\ CountField("cycling") = PyInt(3)
    /\ CountField("strength") = PyInt(0)

\* the sum of the raw distances or durations of the activities in the set idx
RECURSIVE RawTotal(_, _)
RawTotal(idx, key) ==
    IF idx = {} THEN 0
    ELSE LET i == CHOOSE k \in idx : TRUE
         IN  GetD(ActivityList[i], key, PyInt(0))[2] + RawTotal(idx \ {i}, key)

\* C18: in a record assembled from the six payloads the overall activity
\* count is the number of activities in the payload (0 for no payload), which
\* is the sum of the five category counts and the number of unclassified
\* activities; each category total is the sum over the activities of that
\* category alone, so an unclassified activity adds to no count and no total.
C18_ActivityCountsAddUp ==
    Assembled
        => LET first == Firsts IN
           /\ metrics[2].all_activity_count = PyInt(Len(ActivityList))
           /\ Len(ActivityList)
                 = CountField("running")[2] + CountField("cycling")[2]
                   + CountField("strength")[2] + CountField("cardio")[2]
                   + CountField("tennis")[2] + Cardinality(MembersOf(first, "unclassified"))
           /\ \A c \in Categories :
                 TotalField(c) =
                    IF MembersOf(first, c) = {} THEN PyInt(0)
                    ELSE Num(RawTotal(MembersOf(first, c), Measure(c)),
                             IF c \in {"running", "cycling"} THEN 1000 ELSE 60)

\* a payload with two unclassified activities that carry a distance and a
\* duration of their own
C18_Witness ==
    /\ Assembled
    /\ results["activities"] = TimedActivities
    /\ Cardinality(Members("unclassified")) = 2
    /\ metrics[2].all_activity_count = PyInt(5)
    /\ CountField("cardio") = PyInt(2)
    /\ TotalField("cardio") = Num(2100, 60)
    /\ TotalField("running") = PyInt(0)

\* C19: the intensity_minutes of an assembled record is a number, the
\* moderate minutes plus twice the vigorous minutes of the summary, each
\* taken as 0 when missing or null; it is never absent.
C19_IntensityAlwaysNumber ==
    Assembled
        => LET summary == results["summary"]
               minutes(k) == IF HasGet(summary) /\ Get(summary, k)[1] = "int"
                             THEN Get(summary, k)[2] ELSE 0
           IN  metrics[2].intensity_minutes
                  = PyInt(minutes("moderateIntensityMinutes")
                          + 2 * minutes("vigorousIntensityMinutes"))

\* C20: the weight of an assembled record is the grams of the stats payload
\* over 1000 whenever the payload holds a weight, a weight of 0 included,
\* and absent only when it holds none.
C20_WeightPresentIncludingZero ==
    (Assembled /\ HasGet(results["stats"]))
        => LET grams == Get(results["stats"], "weight")
           IN  metrics[2].weight = IF IsNone(grams) THEN PyNone ELSE Num(grams[2], 1000)

\* C21: a get_metrics call on an authenticated session, from the session
\* check to the return of the record, leaves the authenticated flag, the
\* failed flag and the ticket as they were, whatever the fetches return or
\* raise.
C21_GetMetricsKeepsSession ==
    [][(authenticated /\ op' = "get_metrics") => UNCHANGED sessionVars]_vars

\* the record came back after a fetch had raised, the session still authenticated
C21_Witness ==
    /\ op = "get_metrics"
    /\ Returned
    /\ \E s \in Sources : fetch[s] = "failed"
    /\ authenticated
    /\ ~auth_failed
    /\ mfa_ticket_dict = "none"

\* C24: whenever the session holds a ticket it is not authenticated.
C24_TicketImpliesNotAuthenticated == mfa_ticket_dict # "none" => ~authenticated

\* C25: when GARMIN_TOKENS is set and garth.loads or the profile read
\* raises, the same call goes on to client.login(), and ends as that login
\* does: authenticated when it returns, with the MFA challenge and the
\* pending dict as ticket when it fails in a challenge shape with a dict
\* pending, and otherwise with an error that carries the text of the login's
\* failure.
C25_TokenFailureFallsBackToLogin ==
    (loads_invoked /\ profile_result[1] # "data")
        => /\ login_result # NotCalled
           /\ login_result = NoExc
                 => (raised = NoExc /\ authenticated /\ mfa_ticket_dict = "none")
           /\ (login_result # NoExc /\ IsChallengeText(login_result) /\ IsDict(pending_token))
                 => /\ raised.type = "MFARequiredException"
                    /\ raised.mfa_data = pending_token
                    /\ mfa_ticket_dict = pending_token
           /\ (login_result # NoExc /\ ~(IsChallengeText(login_result) /\ IsDict(pending_token)))
                 => /\ raised.type \notin {"none", "MFARequiredException"}
                    /\ Contains(login_result.msg, raised.msg)

\* the profile read after the token load raised and the login went through
C25_Witness ==
    /\ op = "authenticate"
    /\ loads_invoked
    /\ profile_result = <<"raises">>
    /\ login_result = NoExc
    /\ raised = NoExc
    /\ authenticated

\* C26: get_metrics on a session that holds a ticket and is neither
\* authenticated nor failed runs authenticate() (the token load or the
\* login) instead of raising at the session check; fetches are created only
\* if it returned with the session authenticated; and the ticket afterwards
\* is the one that authenticate() left: none after a success, the new
\* pending dict after a challenge, the old ticket after any other error.
C26_PendingChallengeReauthenticates ==
    [][(/\ pc = "idle"
        /\ mfa_ticket_dict # "none"
        /\ ~authenticated
        /\ ~auth_failed
        /\ op' = "get_metrics")
          => /\ login_result' # NotCalled \/ loads_invoked'
             /\ raised' # AlreadyFailed
             /\ fetch' # NoTasks => (raised' = NoExc /\ authenticated')
             /\ mfa_ticket_dict' =
                   IF raised' = NoExc THEN "none"
                   ELSE IF raised'.type = "MFARequiredException" THEN raised'.mfa_data
                   ELSE mfa_ticket_dict]_vars

\* the login get_metrics started met another challenge, whose dict replaced
\* the ticket the session held
C26_Witness ==
    /\ op = "get_metrics"
    /\ raised.type = "MFARequiredException"
    /\ overwritten_ticket = "dict_noclient"
    /\ mfa_ticket_dict = "dict_t1"
    /\ ~authenticated
    /\ ~auth_failed
    /\ fetch = NoTasks

\* the dates sync is to fetch, in the order it is to fetch them
DateRange ==
    [k \in 1..(IF end_date < start_date THEN 0 ELSE end_date - start_date + 1)
        |-> start_date + k - 1]

IsPrefix(s, t) == Len(s) <= Len(t) /\ \A k \in 1..Len(s) : s[k] = t[k]

\* sync has left the date loop
LoopLeft == sync_pc \in {"write", "done", "failed", "crashed"}

\* C22: when authenticate() raises in sync, the MFA challenge or any other
\* exception, the process exits there: no get_metrics call has been made,
\* no fetch exists, nothing has reached the sheet or the CSV file, and sync
\* takes no step after the exit.
C22_FailedAuthenticationAborts ==
    [][/\ sync_pc # "aborted"
       /\ (sync_pc = "start" /\ raised' # NoExc)
             => /\ sync_pc' = "aborted"
                /\ calls' = <<>>
                /\ fetch' = NoTasks
                /\ metrics_to_write' = <<>>
                /\ sink' = <<>>]_vars

\* the login met an MFA challenge and the run ended without a fetch
C22_Witness ==
    /\ sync_pc = "aborted"
    /\ op = "authenticate"
    /\ raised.type = "MFARequiredException"
    /\ calls = <<>>
    /\ sink = <<>>

\* sync is at the loop test or inside the get_metrics call of the loop
InLoop == sync_pc \in {"loop", "await"}

\* the dates from current_date to end_date
DatesLeft == IF end_date < current_date THEN 0 ELSE end_date + 1 - current_date

\* what is left of the loop: the dates still to fetch, then the fetches of
\* the current call still in flight
Variant ==
    IF sync_pc = "loop"
    THEN 8 * DatesLeft
    ELSE 8 * DatesLeft - 7 + Cardinality({s \in Sources : fetch[s] = "inflight"})

\* C23: once authenticate() has returned, the dates sync calls get_metrics
\* with are, in order, a prefix of start_date..end_date and all of them when
\* the loop is left; metrics_to_write holds one record per date called, in
\* the same order, each with its date; records reach the output only when
\* the loop is left, as metrics_to_write or a prefix of it, and the CSV
\* branch that returns has written all of them; with start_date after
\* end_date there is no call and no output; and the loop terminates: inside
\* it a step is always possible, and every step lowers a natural number
\* (dates left, then fetches in flight) or leaves the loop.
C23_OneFetchPerDateThenWrite ==
    /\ [](sync_pc \notin {"start", "aborted"}
            => /\ IsPrefix(calls, DateRange)
               /\ LoopLeft => calls = DateRange
               /\ Len(metrics_to_write) = Len(calls) - (IF sync_pc = "await" THEN 1 ELSE 0)
               /\ \A k \in 1..Len(metrics_to_write) :
                     /\ metrics_to_write[k][1] = "GarminMetrics"
                     /\ metrics_to_write[k][2].date = calls[k]
               /\ sink # <<>> => (LoopLeft /\ IsPrefix(sink, metrics_to_write))
               /\ (sync_pc = "done" /\ output_type = "csv") => sink = metrics_to_write
               /\ end_date < start_date => (calls = <<>> /\ fetch = NoTasks /\ sink = <<>>)
               /\ InLoop => (Variant \in Nat /\ ENABLED NextSync))
    /\ [][InLoop => (LoopLeft' \/ (InLoop' /\ Variant' < Variant))]_vars

\* both dates of the range were fetched, in order, and their two records
\* written to the CSV file
C23_Witness ==
    /\ sync_pc = "done"
    /\ output_type = "csv"
    /\ start_date = 1
    /\ end_date = 2
    /\ calls = <<1, 2>>
    /\ Len(sink) = 2
    /\ sink[1][2].date = 1
    /\ sink[2][2].date = 2

====
